---------------------------- MODULE Spec2Model ----------------------------
(***************************************************************************)
(* The server actions of src/app/lib/action.ts (authenticate, register,    *)
(* createInvoice, updateInvoice, deleteInvoice) as a state machine over    *)
(* the users and invoices tables, the established sessions and the         *)
(* request in flight, with the authorized callback of src/auth.config.ts. *)
(* SpecAccounts runs the account actions and the callback, SpecInvoices    *)
(* the invoice actions (no action of one reads or writes a table of the    *)
(* other), SpecWriting the four actions that write, on fewer submissions,  *)
(* and SpecConcurrent several register requests at a time.                 *)
(*                                                                         *)
(* A request advances one await at a time: an action of the model is the   *)
(* resolution of one awaited call together with the synchronous code that  *)
(* follows it up to the next await (or to the end of the handler).         *)
(***************************************************************************)
EXTENDS Integers, Sequences, FiniteSets, TLC

VARIABLES users, invoices, nextInvoiceId, sessions, req, reqs

vars == <<users, invoices, nextInvoiceId, sessions, req, reqs>>

-----------------------------------------------------------------------------
(* Bounds of the model.                                                    *)

\* invoice ids the store hands out: 1..MaxInvoices
MaxInvoices == 2

\* register requests that may be in flight at the same time: 1..MaxRequests
MaxRequests == 2

-----------------------------------------------------------------------------
(* FormData values.  FormData.get(name) is null when the field is absent   *)
(* and a string otherwise; a string is its sequence of characters.         *)

Null == [null |-> TRUE, chars |-> <<>>]
Str(cs) == [null |-> FALSE, chars |-> cs]

IsString(x) == ~x.null

Digits == {"0", "1", "2", "3", "4", "5", "6", "7", "8", "9"}

DigitValue(ch) ==
    CASE ch = "0" -> 0 [] ch = "1" -> 1 [] ch = "2" -> 2 [] ch = "3" -> 3
      [] ch = "4" -> 4 [] ch = "5" -> 5 [] ch = "6" -> 6 [] ch = "7" -> 7
      [] ch = "8" -> 8 [] ch = "9" -> 9

\* the positions of cs holding the character ch
Positions(cs, ch) == {i \in 1..Len(cs) : cs[i] = ch}

-----------------------------------------------------------------------------
(* JavaScript numbers.  The amounts of the model are decimals with at most *)
(* two fractional digits: the number h/100 is written by its count h of    *)
(* hundredths, and stands for the IEEE-754 double nearest to h/100.        *)

NaN == [nan |-> TRUE, hundredths |-> 0]
Num(h) == [nan |-> FALSE, hundredths |-> h]

RECURSIVE DigitsValue(_)
DigitsValue(cs) ==
    IF cs = <<>> THEN 0
    ELSE 10 * DigitsValue(SubSeq(cs, 1, Len(cs) - 1)) + DigitValue(cs[Len(cs)])

AllDigits(cs) == \A i \in 1..Len(cs) : cs[i] \in Digits

\* an unsigned StrDecimalLiteral: digits, digits "." digits, or "." digits
UnsignedLiteral(cs) ==
    LET dots == Positions(cs, ".") IN
    IF dots = {} THEN
        IF cs # <<>> /\ AllDigits(cs) THEN Num(100 * DigitsValue(cs)) ELSE NaN
    ELSE IF Cardinality(dots) > 1 THEN NaN
    ELSE LET d    == CHOOSE i \in dots : TRUE
             int  == SubSeq(cs, 1, d - 1)
             frac == SubSeq(cs, d + 1, Len(cs))
         IN IF ~(AllDigits(int) /\ AllDigits(frac)) \/ Len(int) + Len(frac) = 0
              THEN NaN
            ELSE CASE Len(frac) = 0 -> Num(100 * DigitsValue(int))
                   [] Len(frac) = 1 -> Num(100 * DigitsValue(int) + 10 * DigitsValue(frac))
                   [] Len(frac) = 2 -> Num(100 * DigitsValue(int) + DigitsValue(frac))

\* Number(x), the coercion of z.coerce.number(): null and "" give 0, a
\* decimal literal its value, any other string NaN
ToNumber(x) ==
    IF x.null \/ x.chars = <<>> THEN Num(0)
    ELSE LET cs   == x.chars
             rest == SubSeq(cs, 2, Len(cs))
         IN CASE cs[1] = "-" ->
                   LET n == UnsignedLiteral(rest)
                   IN IF n.nan THEN NaN ELSE Num(0 - n.hundredths)
              [] cs[1] = "+" -> UnsignedLiteral(rest)
              [] OTHER -> UnsignedLiteral(cs)

RECURSIVE Pow2(_)
Pow2(n) == IF n = 0 THEN 1 ELSE 2 * Pow2(n - 1)

RECURSIVE PowMod(_, _, _)
PowMod(b, e, m) == IF e = 0 THEN 1 % m ELSE (b * PowMod(b, e - 1, m)) % m

\* the binary exponent F of h/100: 2^F <= h/100 < 2^(F+1), for h > 0
BinaryExponent(h) ==
    IF h >= 100
      THEN CHOOSE f \in 0..20 : 100 * Pow2(f) <= h /\ h < 200 * Pow2(f)
      ELSE 0 - (CHOOSE j \in 1..7 : 100 <= h * Pow2(j) /\ h * Pow2(j) < 200)

\* 100 * M - h * 2^k, where M is the 53-bit significand of the double nearest
\* to h/100 and k = 52 - F: the error of that double, in units of 2^-k / 100.
\* M is h * 2^k / 100 rounded to nearest, ties to even.
SignificandError(h) ==
    LET k   == 52 - BinaryExponent(h)
        n   == ((h % 200) * PowMod(2, k, 200)) % 200
        rem == n % 100
        odd == n \div 100 = 1
    IN  IF rem < 50 \/ (rem = 50 /\ ~odd) THEN 0 - rem ELSE 100 - rem

IsPowerOfTwo(h) == \E e \in 0..30 : h = Pow2(e)

\* amount * 100 in double arithmetic, for amount = h/100.  For h > 0 the exact
\* product of the double and 100 is h + r * 2^-k with r = SignificandError(h);
\* it is rounded to the doubles around the integer h, which lie 64 or 128
\* units of 2^-k apart (half that below a power of two).  The result is
\* written [cents |-> h, err |-> e]: e = 0 is the integer h, e = 1 and e = -1
\* the next double above and below it, which is not an integer.
MulBy100Positive(h) ==
    LET F    == BinaryExponent(h)
        r    == SignificandError(h)
        scal == IF F >= 0 THEN h ELSE h * Pow2(0 - F)
        unit == IF F >= 0 THEN Pow2(F) ELSE 1
        up   == IF scal < 128 * unit THEN 64 ELSE 128
        down == IF IsPowerOfTwo(h) THEN up \div 2 ELSE up
    IN  [cents |-> h,
         err   |-> CASE 2 * r > up -> 1
                     [] 2 * (0 - r) > down -> -1
                     [] OTHER -> 0]

\* the product is exact for 0 and symmetric in the sign
MulBy100(h) ==
    IF h = 0 THEN [cents |-> 0, err |-> 0]
    ELSE IF h > 0 THEN MulBy100Positive(h)
    ELSE LET p == MulBy100Positive(0 - h)
         IN [cents |-> 0 - p.cents, err |-> 0 - p.err]

-----------------------------------------------------------------------------
(* The zod schemas.  Parsing a field gives a status and the messages of    *)
(* its issues: "aborted" when the value has the wrong type (no further     *)
(* check runs on it), "dirty" when a check on a well-typed value failed,   *)
(* "valid" otherwise.  An object is aborted when one of its fields is,     *)
(* and a refinement of the object runs only when the object is not.        *)

Parsed(status, issues) == [status |-> status, issues |-> issues]

\* the letters that occur in the strings of the model
Letters == {"a", "b", "c", "e", "i", "l", "o", "r", "s", "t", "x", "A"}
LocalChars == Letters \cup Digits \cup {"_", "+", "-"}

\* z.string().email(): one "@"; a local part of LocalChars and inner dots;
\* a domain of dot-separated labels ending in a label of two letters or more
IsEmail(cs) ==
    LET ats == Positions(cs, "@") IN
    /\ Cardinality(ats) = 1
    /\ LET p      == CHOOSE i \in ats : TRUE
           local  == SubSeq(cs, 1, p - 1)
           domain == SubSeq(cs, p + 1, Len(cs))
           dots   == Positions(domain, ".")
       IN /\ local # <<>>
          /\ \A i \in 1..Len(local) : local[i] \in LocalChars \cup {"."}
          /\ local[1] # "." /\ local[Len(local)] # "."
          /\ \A i \in 1..(Len(cs) - 1) : ~(cs[i] = "." /\ cs[i + 1] = ".")
          /\ dots # {}
          /\ domain[1] \in Letters \cup Digits
          /\ \A i \in 1..Len(domain) : domain[i] \in Letters \cup Digits \cup {"-", "."}
          /\ LET last == CHOOSE d \in dots : \A e \in dots : e <= d
             IN /\ Len(domain) - last >= 2
                /\ \A i \in (last + 1)..Len(domain) : domain[i] \in Letters

\* z.string(): a value that is not a string aborts with the type message
ZodString(x, typeMessage) ==
    IF IsString(x) THEN Parsed("valid", <<>>) ELSE Parsed("aborted", <<typeMessage>>)

\* z.string().min(n)
ZodStringMin(x, n) ==
    IF ~IsString(x) THEN Parsed("aborted", <<"Expected string, received null">>)
    ELSE IF Len(x.chars) < n
      THEN Parsed("dirty", <<"String must contain at least " \o ToString(n)
                                \o " character(s)">>)
    ELSE Parsed("valid", <<>>)

\* z.string().email()
ZodStringEmail(x) ==
    IF ~IsString(x) THEN Parsed("aborted", <<"Expected string, received null">>)
    ELSE IF ~IsEmail(x.chars) THEN Parsed("dirty", <<"Invalid email">>)
    ELSE Parsed("valid", <<>>)

\* z.coerce.number().gte(0, {message}): the bound of the check made inclusive
ZodCoerceNumberGte0(x) ==
    LET n == ToNumber(x) IN
    IF n.nan THEN Parsed("aborted", <<"Expected number, received nan">>)
    ELSE IF ~(n.hundredths >= 0)
      THEN Parsed("dirty", <<"Please enter an amount greater than $0.">>)
    ELSE Parsed("valid", <<>>)

\* z.coerce.number().gt(0, {message})
ZodCoerceNumberGt0(x) ==
    LET n == ToNumber(x) IN
    IF n.nan THEN Parsed("aborted", <<"Expected number, received nan">>)
    ELSE IF ~(n.hundredths > 0)
      THEN Parsed("dirty", <<"Please enter an amount greater than $0.">>)
    ELSE Parsed("valid", <<>>)

Pending == <<"p", "e", "n", "d", "i", "n", "g">>
Paid == <<"p", "a", "i", "d">>

\* z.enum(['pending', 'paid'], {invalid_type_error})
ZodEnumStatus(x) ==
    IF ~IsString(x) THEN Parsed("aborted", <<"Please select an invoice status.">>)
    ELSE IF x.chars \notin {Pending, Paid}
      THEN Parsed("aborted", <<"Invalid enum value. Expected 'pending' | 'paid'">>)
    ELSE Parsed("valid", <<>>)

\* the status of an object from the parses of its fields
ObjectStatus(fields) ==
    IF \E f \in DOMAIN fields : fields[f].status = "aborted" THEN "aborted"
    ELSE IF \E f \in DOMAIN fields : fields[f].status = "dirty" THEN "dirty"
    ELSE "valid"

ObjectIssues(fields) == [f \in DOMAIN fields |-> fields[f].issues]

\* error.flatten().fieldErrors: the fields that have issues, with their messages
Flatten(issues) ==
    [f \in {g \in DOMAIN issues : issues[g] # <<>>} |-> issues[f]]

Success(parsed) == \A f \in DOMAIN parsed.issues : parsed.issues[f] = <<>>

MinPasswordLength == 6

RegisterSchema(data) ==
    LET fields == [email           |-> ZodStringEmail(data.email),
                   name            |-> ZodStringMin(data.name, 1),
                   password        |-> ZodStringMin(data.password, MinPasswordLength),
                   confirmPassword |-> ZodStringMin(data.confirmPassword, MinPasswordLength)]
    IN  Parsed(ObjectStatus(fields), ObjectIssues(fields))

\* RegisterSchema.refine(confirmPassword === password, path confirmPassword)
FullRegisterSchema(data) ==
    LET base == RegisterSchema(data) IN
    IF base.status # "aborted" /\ data.confirmPassword # data.password
      THEN Parsed("dirty",
                  [base.issues EXCEPT !.confirmPassword =
                       Append(@, "Password does not match")])
      ELSE base

\* FormSchema.omit({id, date}): CreateInvoice and UpdateInvoice
FormSchema(data) ==
    LET fields == [customerId |-> ZodString(data.customerId, "Please select a customer."),
                   amount     |-> ZodCoerceNumberGt0(data.amount),
                   status     |-> ZodEnumStatus(data.status)]
    IN  Parsed(ObjectStatus(fields), ObjectIssues(fields))

CreateInvoice(data) == FormSchema(data)

UpdateInvoice(data) == FormSchema(data)

-----------------------------------------------------------------------------
(* Thrown values, and how a request ends.                                  *)

Thrown(class, type, code, url) ==
    [class |-> class, type |-> type, code |-> code, url |-> url]

RedirectError(url) == Thrown("RedirectError", "", "", url)
AuthError(type) == Thrown("AuthError", type, "", "")
DatabaseError(code) == Thrown("DatabaseError", "", code, "")
PlainError == Thrown("Error", "", "", "")
ZodError == Thrown("ZodError", "", "", "")

\* isRedirectError(error)
isRedirectError(error) == error.class = "RedirectError"

NoResult == [kind |-> "none"]
\* the handler returned the value v
Return(v) == [kind |-> "return", defined |-> TRUE, value |-> v]
\* the handler ran to its end and returned undefined
ReturnUndefined == [kind |-> "return", defined |-> FALSE]
\* the handler ended by raising error: a navigation when error is a redirect
Throw(error) ==
    IF isRedirectError(error) THEN [kind |-> "redirect", path |-> error.url]
    ELSE [kind |-> "throw", error |-> error]

\* redirect(path) raises the navigation signal
redirect(path) == Throw(RedirectError(path))

MessageResult(message) == [message |-> message]
ErrorsResult(errors, message) == [errors |-> errors, message |-> message]

-----------------------------------------------------------------------------
(* The collaborators: password hashing, the store and the session          *)
(* provider.                                                               *)

SaltRounds == 10

\* bcrypt.hash(password, rounds): a one-way hash, never the plaintext
Hash(password, rounds) == [bcrypt |-> password, rounds |-> rounds]

\* bcrypt.compare(password, hash) of the session provider
HashMatches(password, hash) == hash.bcrypt = password

UserRow(email, password, name) == [email |-> email, password |-> password, name |-> name]

EmailTaken(table, email) == \E u \in table : u.email = email

\* INSERT INTO users: the unique constraint on email rejects a second row
\* with code 23505; any statement may fail for another reason ("error");
\* "ok0" is a statement that succeeds reporting no inserted row
InsertUserOutcomes(table, email) ==
    IF EmailTaken(table, email) THEN {"23505", "error"} ELSE {"ok", "ok0", "error"}

\* every other statement either applies or fails as a whole
StatementOutcomes == {"ok", "error"}

SignInRedirects == {"/dashboard", "/"}

\* signIn('credentials', {email, password}): with the password of a stored
\* user it establishes a session and raises a navigation signal (or returns);
\* with any other pair it raises CredentialsSignin; it may also fail with
\* another AuthError or with an error that is no AuthError
CredentialsMatch(table, email, password) ==
    /\ IsString(email) /\ IsString(password)
    /\ \E u \in table : u.email = email.chars /\ HashMatches(password.chars, u.password)

SignInOutcome(session, raised, error) ==
    [session |-> session, raised |-> raised, error |-> error]

SignInOutcomes(table, email, password) ==
    (IF CredentialsMatch(table, email, password)
       THEN {SignInOutcome(TRUE, TRUE, RedirectError(url)) : url \in SignInRedirects}
               \cup {SignInOutcome(TRUE, FALSE, PlainError)}
       ELSE {SignInOutcome(FALSE, TRUE, AuthError("CredentialsSignin"))})
    \cup {SignInOutcome(FALSE, TRUE, AuthError("CallbackRouteError")),
          SignInOutcome(FALSE, TRUE, PlainError)}

-----------------------------------------------------------------------------
(* The request in flight.                                                  *)
(*   action    the server action called ("none" before the first call)    *)
(*   form, id  its FormData and, for update and delete, the invoice id     *)
(*   pc        the await the request is suspended at; "done" at its end    *)
(*   data      what the handler holds in its local variables               *)
(*   result    how the request ended                                       *)
(*   effects   the calls it made to its collaborators, in order            *)
(*   users0, invoices0, sessions0   the tables when the request started    *)

Request(action, form, id, pc, data, result, effects) ==
    [action |-> action, form |-> form, id |-> id, pc |-> pc, data |-> data,
     result |-> result, effects |-> effects,
     users0 |-> users, invoices0 |-> invoices, sessions0 |-> sessions]

NoForm == [none |-> Null]
NoData == [none |-> Null]

Idle == Request("none", NoForm, 0, "idle", NoData, NoResult, <<>>)

\* a new request may start when none is in flight
Quiet == req.pc = "idle"

\* the caller has received the result of the request: the request is over
respond ==
    /\ req.pc = "done"
    /\ req' = Idle
    /\ UNCHANGED <<users, invoices, nextInvoiceId, sessions, reqs>>

Sql(statement, outcome) == <<"sql", statement, outcome>>
SignInCall(outcome) ==
    <<"signIn", IF outcome.session THEN "session" ELSE "no session",
      IF outcome.raised THEN outcome.error.class ELSE "returned",
      IF outcome.raised THEN outcome.error.type ELSE "",
      IF outcome.raised THEN outcome.error.url ELSE "">>
RevalidatePathCall(path) == <<"revalidatePath", path>>
RedirectCall(path) == <<"redirect", path>>

InvoicesPath == "/dashboard/invoices"
DashboardPath == "/dashboard"

-----------------------------------------------------------------------------
(* authenticate                                                            *)

CredentialsForm(email, password) == [email |-> email, password |-> password]

\* the catch block of authenticate without the CredentialsSignin case
authenticateCatchNoCase(error) ==
    IF error.class = "AuthError" THEN Return("Something went wrong.")
    ELSE Throw(error)

\* the catch block of authenticate swallowing what is no AuthError
authenticateCatchSwallow(error) ==
    IF error.class = "AuthError"
      THEN IF error.type = "CredentialsSignin"
             THEN Return("Invalid credentials.")
             ELSE Return("Something went wrong.")
      ELSE ReturnUndefined

\* the catch block of authenticate
authenticateCatch(error) ==
    IF error.class = "AuthError"
      THEN IF error.type = "CredentialsSignin"
             THEN Return("Invalid credentials.")
             ELSE Return("Something went wrong.")
      ELSE Throw(error)

authenticateCall(form) ==
    /\ Quiet
    /\ req' = Request("authenticate", form, 0, "signIn", NoData, NoResult, <<>>)
    /\ UNCHANGED <<users, invoices, nextInvoiceId, sessions, reqs>>

authenticateSignIn ==
    /\ req.action = "authenticate" /\ req.pc = "signIn"
    /\ \E o \in SignInOutcomes(users, req.form.email, req.form.password) :
         /\ sessions' = IF o.session THEN sessions \cup {req.form.email.chars}
                                     ELSE sessions
         /\ req' = [req EXCEPT
                      !.pc = "done",
                      !.effects = Append(@, SignInCall(o)),
                      !.result = IF o.raised THEN authenticateCatch(o.error)
                                             ELSE ReturnUndefined]
    /\ UNCHANGED <<users, invoices, nextInvoiceId, reqs>>

-----------------------------------------------------------------------------
(* register                                                                *)

RegisterForm(email, name, password, confirmPassword) ==
    ("confirm-password" :> confirmPassword)
        @@ [email |-> email, name |-> name, password |-> password]

\* the object register hands to FullRegisterSchema.safeParse
registerFields(form) ==
    [email           |-> form["email"],
     name            |-> form["name"],
     password        |-> form["password"],
     confirmPassword |-> form["confirm-password"]]

\* createUser: the INSERT INTO users statement
createUser(table, formData, outcome) ==
    IF outcome = "ok"
      THEN table \cup {UserRow(formData.email, formData.password, formData.name)}
      ELSE table

\* result.rowCount of a statement that did not raise
rowCount(outcome) == IF outcome = "ok" THEN 1 ELSE 0

StoreError(outcome) == DatabaseError(IF outcome = "23505" THEN "23505" ELSE "08006")

\* the catch block of register testing for another error code
registerCatchOtherCode(error) ==
    IF error.code = "23503"
      THEN Return(MessageResult("Email already exists. Please sign in."))
    ELSE IF isRedirectError(error) THEN redirect(DashboardPath)
    ELSE Return(MessageResult("Something went wrong, please try again."))

\* the catch block of register without the isRedirectError test
registerCatchAll(error) ==
    IF error.code = "23505"
      THEN Return(MessageResult("Email already exists. Please sign in."))
    ELSE Return(MessageResult("Something went wrong, please try again."))

\* the catch block of register without the test of the error code
registerCatchNoCode(error) ==
    IF isRedirectError(error) THEN redirect(DashboardPath)
    ELSE Return(MessageResult("Something went wrong, please try again."))

\* the catch block of register
registerCatch(error) ==
    IF error.code = "23505"
      THEN Return(MessageResult("Email already exists. Please sign in."))
    ELSE IF isRedirectError(error) THEN redirect(DashboardPath)
    ELSE Return(MessageResult("Something went wrong, please try again."))

registerCall(form) ==
    /\ Quiet
    /\ LET validatedFields == FullRegisterSchema(registerFields(form)) IN
       req' = IF ~Success(validatedFields)
                THEN Request("register", form, 0, "done", NoData,
                             Return(ErrorsResult(Flatten(validatedFields.issues),
                                 "Missing Fields. Failed to Create User, please try again.")),
                             <<>>)
                ELSE Request("register", form, 0, "hash",
                             [email    |-> form["email"].chars,
                              password |-> form["password"].chars,
                              name     |-> form["name"].chars],
                             NoResult, <<>>)
    /\ UNCHANGED <<users, invoices, nextInvoiceId, sessions, reqs>>

\* await bcrypt.hash(password, 10), then the call of createUser
registerHash ==
    /\ req.action = "register" /\ req.pc = "hash"
    /\ req' = [req EXCEPT
                 !.pc = "createUser",
                 !.effects = Append(@, <<"bcrypt.hash">>),
                 !.data = [email          |-> req.data.email,
                           password       |-> req.data.password,
                           name           |-> req.data.name,
                           hashedPassword |-> Hash(req.data.password, SaltRounds)]]
    /\ UNCHANGED <<users, invoices, nextInvoiceId, sessions, reqs>>

\* createUser raised: the store rejected or failed the statement
InsertRaised(outcome) == outcome \in {"23505", "error"}

\* register going on to signIn whatever the insert reported
registerInsertedUnchecked(count) == NoResult

\* the test of the affected-row count after createUser returned
registerInserted(count) ==
    IF count # 1
      THEN Return(MessageResult("Database error. Failed to create user."))
      ELSE NoResult

\* await createUser(...), the rowCount test, then the call of signIn
registerCreateUser ==
    /\ req.action = "register" /\ req.pc = "createUser"
    /\ \E o \in InsertUserOutcomes(users, req.data.email) :
         /\ users' = createUser(users,
                                [email    |-> req.data.email,
                                 password |-> req.data.hashedPassword,
                                 name     |-> req.data.name], o)
         /\ LET result == IF InsertRaised(o) THEN registerCatch(StoreError(o))
                                             ELSE registerInserted(rowCount(o))
            IN req' = [req EXCEPT
                         !.effects = Append(@, Sql("INSERT users", o)),
                         !.pc = IF result = NoResult THEN "signIn" ELSE "done",
                         !.result = result]
    /\ UNCHANGED <<invoices, nextInvoiceId, sessions, reqs>>

\* await signIn('credentials', {email, password})
registerSignIn ==
    /\ req.action = "register" /\ req.pc = "signIn"
    /\ \E o \in SignInOutcomes(users, Str(req.data.email), Str(req.data.password)) :
         /\ sessions' = IF o.session THEN sessions \cup {req.data.email} ELSE sessions
         /\ req' = [req EXCEPT
                      !.pc = "done",
                      !.effects = Append(@, SignInCall(o)),
                      !.result = IF o.raised THEN registerCatch(o.error)
                                             ELSE ReturnUndefined]
    /\ UNCHANGED <<users, invoices, nextInvoiceId, reqs>>

-----------------------------------------------------------------------------
(* register, several requests at a time.  Each request runs the handler    *)
(* above; between two of its awaits any other request may take a step.     *)
(* reqs[r] is the request in slot r.                                       *)

Requests == 1..MaxRequests

RegisterRequest(form, pc, data, result, effects) ==
    [form |-> form, pc |-> pc, data |-> data, result |-> result, effects |-> effects]

NoRequest == RegisterRequest(NoForm, "idle", NoData, NoResult, <<>>)

registerCallOf(r, form) ==
    /\ reqs[r].pc = "idle"
    /\ LET validatedFields == FullRegisterSchema(registerFields(form)) IN
       reqs' = [reqs EXCEPT ![r] =
                  IF ~Success(validatedFields)
                    THEN RegisterRequest(form, "done", NoData,
                             Return(ErrorsResult(Flatten(validatedFields.issues),
                                 "Missing Fields. Failed to Create User, please try again.")),
                             <<>>)
                    ELSE RegisterRequest(form, "hash",
                             [email    |-> form["email"].chars,
                              password |-> form["password"].chars,
                              name     |-> form["name"].chars],
                             NoResult, <<>>)]
    /\ UNCHANGED <<users, invoices, nextInvoiceId, sessions, req>>

registerHashOf(r) ==
    /\ reqs[r].pc = "hash"
    /\ reqs' = [reqs EXCEPT
                  ![r].pc = "createUser",
                  ![r].effects = Append(@, <<"bcrypt.hash">>),
                  ![r].data = [email          |-> reqs[r].data.email,
                               password       |-> reqs[r].data.password,
                               name           |-> reqs[r].data.name,
                               hashedPassword |-> Hash(reqs[r].data.password, SaltRounds)]]
    /\ UNCHANGED <<users, invoices, nextInvoiceId, sessions, req>>

registerCreateUserOf(r) ==
    /\ reqs[r].pc = "createUser"
    /\ \E o \in InsertUserOutcomes(users, reqs[r].data.email) :
         /\ users' = createUser(users,
                                [email    |-> reqs[r].data.email,
                                 password |-> reqs[r].data.hashedPassword,
                                 name     |-> reqs[r].data.name], o)
         /\ LET result == IF InsertRaised(o) THEN registerCatch(StoreError(o))
                                             ELSE registerInserted(rowCount(o))
            IN reqs' = [reqs EXCEPT
                          ![r].effects = Append(@, Sql("INSERT users", o)),
                          ![r].pc = IF result = NoResult THEN "signIn" ELSE "done",
                          ![r].result = result]
    /\ UNCHANGED <<invoices, nextInvoiceId, sessions, req>>

registerSignInOf(r) ==
    /\ reqs[r].pc = "signIn"
    /\ \E o \in SignInOutcomes(users, Str(reqs[r].data.email),
                                Str(reqs[r].data.password)) :
         /\ sessions' = IF o.session THEN sessions \cup {reqs[r].data.email}
                                     ELSE sessions
         /\ reqs' = [reqs EXCEPT
                       ![r].pc = "done",
                       ![r].effects = Append(@, SignInCall(o)),
                       ![r].result = IF o.raised THEN registerCatch(o.error)
                                                 ELSE ReturnUndefined]
    /\ UNCHANGED <<users, invoices, nextInvoiceId, req>>

\* the caller of the request in slot r has received its result
respondOf(r) ==
    /\ reqs[r].pc = "done"
    /\ reqs' = [reqs EXCEPT ![r] = NoRequest]
    /\ UNCHANGED <<users, invoices, nextInvoiceId, sessions, req>>

-----------------------------------------------------------------------------
(* The authorized callback of authConfig.                                  *)

\* the auth argument: null, or a session with or without a user
NoAuth == [null |-> TRUE, user |-> Null]
SessionOf(user) == [null |-> FALSE, user |-> user]

DashboardChars == <<"/", "d", "a", "s", "h", "b", "o", "a", "r", "d">>

\* s.startsWith(prefix)
StartsWith(s, prefix) ==
    /\ Len(s) >= Len(prefix)
    /\ SubSeq(s, 1, Len(prefix)) = prefix

\* what the callback returns: a boolean, or a Response redirecting to location
Boolean(value) == [type |-> "boolean", value |-> value]
ResponseRedirect(location) == [type |-> "Response", location |-> location]

\* the callback letting every dashboard request through
authorizedOpenDashboard(auth, pathname) ==
    LET isLoggedIn == ~auth.null /\ ~auth.user.null
        isOnDashboard == StartsWith(pathname, DashboardChars)
    IN  IF isOnDashboard THEN Boolean(TRUE)
        ELSE IF isLoggedIn THEN ResponseRedirect(DashboardPath)
        ELSE Boolean(TRUE)

\* authorized({ auth, request: { nextUrl } })
authorized(auth, pathname) ==
    LET isLoggedIn == ~auth.null /\ ~auth.user.null
        isOnDashboard == StartsWith(pathname, DashboardChars)
    IN  IF isOnDashboard
          THEN IF isLoggedIn THEN Boolean(TRUE) ELSE Boolean(FALSE)
        ELSE IF isLoggedIn THEN ResponseRedirect(DashboardPath)
        ELSE Boolean(TRUE)

\* a page request passing through the callback
authorizedCall(auth, pathname) ==
    /\ Quiet
    /\ req' = Request("authorized", [auth |-> auth, pathname |-> pathname], 0,
                      "done", NoData, Return(authorized(auth, pathname)), <<>>)
    /\ UNCHANGED <<users, invoices, nextInvoiceId, sessions, reqs>>

-----------------------------------------------------------------------------
(* createInvoice, updateInvoice, deleteInvoice                             *)

InvoiceForm(customerId, amount, status) ==
    [customerId |-> customerId, amount |-> amount, status |-> status]

\* the instants new Date() may show: a calendar day (UTC) and an hour of it,
\* here the last hour of one day and the first of the next
Instants == {[day |-> 1, hour |-> 23], [day |-> 2, hour |-> 0]}

\* new Date().toISOString().split('T')[0]: the day, the time of day dropped
IsoDate(now) == now.day

\* amount * 100
amountInCents(amount) == MulBy100(amount.hundredths)

InvoiceRow(id, customerId, amount, status, date) ==
    [id |-> id, customer_id |-> customerId, amount |-> amount,
     status |-> status, date |-> date]

\* INSERT INTO invoices (customer_id, amount, status, date) VALUES (...):
\* the store generates the id; a statement that fails changes nothing
InsertInvoice(table, id, data, outcome) ==
    IF outcome = "ok"
      THEN table \cup {InvoiceRow(id, data.customerId, data.amountInCents,
                                  data.status, data.date)}
      ELSE table

\* UPDATE invoices SET customer_id, amount, status, without the WHERE clause
UpdateInvoiceRowsEverywhere(table, id, data, outcome) ==
    IF outcome = "ok"
      THEN {[r EXCEPT !.customer_id = data.customerId,
                      !.amount = data.amountInCents,
                      !.status = data.status] : r \in table}
      ELSE table

\* UPDATE invoices SET customer_id, amount, status WHERE id
UpdateInvoiceRows(table, id, data, outcome) ==
    IF outcome = "ok"
      THEN {IF r.id = id
              THEN [r EXCEPT !.customer_id = data.customerId,
                             !.amount = data.amountInCents,
                             !.status = data.status]
              ELSE r : r \in table}
      ELSE table

\* DELETE FROM invoices WHERE id
DeleteInvoiceRows(table, id, outcome) ==
    IF outcome = "ok" THEN {r \in table : r.id # id} ELSE table

\* createInvoice invalidating and navigating whatever its statement did
createInvoiceEffectsAlways(outcome) ==
    <<RevalidatePathCall(InvoicesPath), RedirectCall(InvoicesPath)>>

\* what createInvoice does once its statement has settled
createInvoiceEffects(outcome) ==
    IF outcome = "ok"
      THEN <<RevalidatePathCall(InvoicesPath), RedirectCall(InvoicesPath)>>
      ELSE <<>>

createInvoiceResult(outcome) ==
    IF outcome = "ok" THEN redirect(InvoicesPath)
    ELSE Return(MessageResult("Database Error: Failed to Create Invoice."))

\* what updateInvoice does once its statement has settled
updateInvoiceEffects(outcome) ==
    IF outcome = "ok"
      THEN <<RevalidatePathCall(InvoicesPath), RedirectCall(InvoicesPath)>>
      ELSE <<>>

updateInvoiceResult(outcome) ==
    IF outcome = "ok" THEN redirect(InvoicesPath)
    ELSE Return(MessageResult("Database Error: Failed to Update Invoice."))

\* what deleteInvoice does once its statement has settled
deleteInvoiceEffects(outcome) ==
    IF outcome = "ok" THEN <<RevalidatePathCall(InvoicesPath)>> ELSE <<>>

\* deleteInvoice reporting success whatever the statement did
deleteInvoiceResultAlways(outcome) == Return(MessageResult("Deleted Invoice."))

deleteInvoiceResult(outcome) ==
    IF outcome = "ok" THEN Return(MessageResult("Deleted Invoice."))
    ELSE Return(MessageResult("Database Error: Failed to Delete Invoice."))

createInvoiceCall(form, now) ==
    /\ Quiet
    /\ nextInvoiceId <= MaxInvoices
    /\ LET validatedFields == CreateInvoice(form) IN
       req' = IF ~Success(validatedFields)
                THEN Request("createInvoice", form, 0, "done", NoData,
                             Return(ErrorsResult(Flatten(validatedFields.issues),
                                                 "Missing Fields. Failed to Create Invoice.")),
                             <<>>)
                ELSE Request("createInvoice", form, 0, "insert",
                             [customerId    |-> form.customerId.chars,
                              amountInCents |-> amountInCents(ToNumber(form.amount)),
                              status        |-> form.status.chars,
                              date          |-> IsoDate(now),
                              now           |-> now],
                             NoResult, <<>>)
    /\ UNCHANGED <<users, invoices, nextInvoiceId, sessions, reqs>>

\* createInvoice issuing its statement a second time after a failure
createInvoiceInsertRetry ==
    /\ req.action = "createInvoice" /\ req.pc = "insert"
    /\ \E o \in StatementOutcomes :
         /\ invoices' = InsertInvoice(invoices, nextInvoiceId, req.data, o)
         /\ nextInvoiceId' = IF o = "ok" THEN nextInvoiceId + 1 ELSE nextInvoiceId
         /\ req' = IF o = "error" /\ req.effects = <<>>
                      THEN [req EXCEPT !.effects = Append(@, Sql("INSERT invoices", o))]
                      ELSE [req EXCEPT
                              !.pc = "done",
                              !.effects = Append(@, Sql("INSERT invoices", o))
                                              \o createInvoiceEffects(o),
                              !.result = createInvoiceResult(o)]
    /\ UNCHANGED <<users, sessions, reqs>>

\* await sql`INSERT INTO invoices`, then revalidatePath and redirect
createInvoiceInsert ==
    /\ req.action = "createInvoice" /\ req.pc = "insert"
    /\ \E o \in StatementOutcomes :
         /\ invoices' = InsertInvoice(invoices, nextInvoiceId, req.data, o)
         /\ nextInvoiceId' = IF o = "ok" THEN nextInvoiceId + 1 ELSE nextInvoiceId
         /\ req' = [req EXCEPT
                      !.pc = "done",
                      !.effects = Append(@, Sql("INSERT invoices", o))
                                      \o createInvoiceEffects(o),
                      !.result = createInvoiceResult(o)]
    /\ UNCHANGED <<users, sessions, reqs>>

updateInvoiceCall(id, form) ==
    /\ Quiet
    /\ LET parsed == UpdateInvoice(form) IN
       req' = IF ~Success(parsed)
                THEN Request("updateInvoice", form, id, "done", NoData,
                             Throw(ZodError), <<>>)
                ELSE Request("updateInvoice", form, id, "update",
                             [customerId    |-> form.customerId.chars,
                              amountInCents |-> amountInCents(ToNumber(form.amount)),
                              status        |-> form.status.chars],
                             NoResult, <<>>)
    /\ UNCHANGED <<users, invoices, nextInvoiceId, sessions, reqs>>

\* await sql`UPDATE invoices`, then revalidatePath and redirect
updateInvoiceUpdate ==
    /\ req.action = "updateInvoice" /\ req.pc = "update"
    /\ \E o \in StatementOutcomes :
         /\ invoices' = UpdateInvoiceRows(invoices, req.id, req.data, o)
         /\ req' = [req EXCEPT
                      !.pc = "done",
                      !.effects = Append(@, Sql("UPDATE invoices", o))
                                      \o updateInvoiceEffects(o),
                      !.result = updateInvoiceResult(o)]
    /\ UNCHANGED <<users, nextInvoiceId, sessions, reqs>>

deleteInvoiceCall(id) ==
    /\ Quiet
    /\ req' = Request("deleteInvoice", NoForm, id, "delete", NoData, NoResult, <<>>)
    /\ UNCHANGED <<users, invoices, nextInvoiceId, sessions, reqs>>

\* await sql`DELETE FROM invoices`, then revalidatePath and the return
deleteInvoiceDelete ==
    /\ req.action = "deleteInvoice" /\ req.pc = "delete"
    /\ \E o \in StatementOutcomes :
         /\ invoices' = DeleteInvoiceRows(invoices, req.id, o)
         /\ req' = [req EXCEPT
                      !.pc = "done",
                      !.effects = Append(@, Sql("DELETE invoices", o))
                                      \o deleteInvoiceEffects(o),
                      !.result = deleteInvoiceResult(o)]
    /\ UNCHANGED <<users, nextInvoiceId, sessions, reqs>>

-----------------------------------------------------------------------------
(* The submissions the model draws from.                                   *)

GoodEmail == <<"a", "@", "x", ".", "i", "o">>
OtherEmail == <<"b", "@", "x", ".", "i", "o">>
BadEmail == <<"a", "@", "x">>
GoodName == <<"A", "l">>
ShortPassword == <<"a", "b", "c">>
Password1 == <<"s", "e", "c", "r", "e", "t">>
Password2 == <<"s", "e", "c", "r", "e", "t", "1">>
Customer == <<"a", "b", "c">>

EmailInputs == {Null, Str(BadEmail), Str(GoodEmail), Str(OtherEmail)}
NameInputs == {Null, Str(<<>>), Str(GoodName)}
PasswordInputs == {Null, Str(ShortPassword), Str(Password1), Str(Password2)}
CustomerInputs == {Null, Str(<<>>), Str(Customer)}
AmountInputs ==
    {Null, Str(<<"a", "b", "c">>), Str(<<"-", "5">>), Str(<<"0">>),
     Str(<<"5", "0">>), Str(<<"1", "9", ".", "9", "9">>)}
StatusInputs == {Null, Str(<<"d", "r", "a", "f", "t">>), Str(Pending), Str(Paid)}
\* the ids the store hands out: of invoices that exist, were deleted or are
\* yet to be created
InvoiceIds == 1..MaxInvoices

\* the paths requested: the dashboard, a page under it, a path that only
\* begins with its characters, a proper prefix of it, the root and the login page
Pathnames ==
    {DashboardChars,
     DashboardChars \o <<"/", "i", "n", "v", "o", "i", "c", "e", "s">>,
     DashboardChars \o <<"s">>,
     <<"/", "d", "a", "s", "h">>,
     <<"/">>,
     <<"/", "l", "o", "g", "i", "n">>}

\* what a request can carry: nothing, a session without a user, or the
\* session of a user who signed in
AuthInputs(established) ==
    {NoAuth, SessionOf(Null)} \cup {SessionOf(Str(email)) : email \in established}

RegisterForms ==
    {RegisterForm(e, n, p, c) :
        e \in EmailInputs, n \in NameInputs, p \in PasswordInputs, c \in PasswordInputs}
CredentialsForms ==
    {CredentialsForm(e, p) : e \in EmailInputs, p \in PasswordInputs}
InvoiceForms ==
    {InvoiceForm(c, a, s) : c \in CustomerInputs, a \in AmountInputs, s \in StatusInputs}

\* the submissions of the specification of all four writing actions: valid
\* ones and one rejected by validation, of each kind
\* the submissions of concurrent requests: valid, two of them with one email
\* and different passwords
ConcurrentRegisterForms ==
    {RegisterForm(Str(GoodEmail), Str(GoodName), Str(Password1), Str(Password1)),
     RegisterForm(Str(GoodEmail), Str(GoodName), Str(Password2), Str(Password2)),
     RegisterForm(Str(OtherEmail), Str(GoodName), Str(Password1), Str(Password1)),
     RegisterForm(Str(BadEmail), Str(GoodName), Str(Password1), Str(Password1))}

WritingRegisterForms ==
    {RegisterForm(Str(e), Str(GoodName), Str(Password1), Str(c)) :
        e \in {GoodEmail, OtherEmail}, c \in {Password1, Password2}}
WritingInvoiceForms ==
    {InvoiceForm(Str(Customer), a, Str(Pending)) :
        a \in {Str(<<"0">>), Str(<<"5", "0">>)}}

-----------------------------------------------------------------------------

Init ==
    /\ users = {}
    /\ invoices = {}
    /\ nextInvoiceId = 1
    /\ sessions = {}
    /\ req = Idle
    /\ reqs = [r \in Requests |-> NoRequest]

\* the account actions: authenticate and register
NextAccounts ==
    \/ \E form \in CredentialsForms : authenticateCall(form)
    \/ authenticateSignIn
    \/ \E form \in RegisterForms : registerCall(form)
    \/ registerHash
    \/ registerCreateUser
    \/ registerSignIn
    \/ \E auth \in AuthInputs(sessions), pathname \in Pathnames :
          authorizedCall(auth, pathname)
    \/ respond

\* the invoice actions
NextInvoices ==
    \/ \E form \in InvoiceForms, now \in Instants : createInvoiceCall(form, now)
    \/ createInvoiceInsert
    \/ \E id \in InvoiceIds, form \in InvoiceForms : updateInvoiceCall(id, form)
    \/ updateInvoiceUpdate
    \/ \E id \in InvoiceIds : deleteInvoiceCall(id)
    \/ deleteInvoiceDelete
    \/ respond

\* the four actions that write to the store, side by side
NextWriting ==
    \/ \E form \in WritingRegisterForms : registerCall(form)
    \/ registerHash
    \/ registerCreateUser
    \/ registerSignIn
    \/ \E form \in WritingInvoiceForms, now \in Instants : createInvoiceCall(form, now)
    \/ createInvoiceInsert
    \/ \E id \in InvoiceIds, form \in WritingInvoiceForms : updateInvoiceCall(id, form)
    \/ updateInvoiceUpdate
    \/ \E id \in InvoiceIds : deleteInvoiceCall(id)
    \/ deleteInvoiceDelete
    \/ respond

\* register requests interleaved at their awaits
NextConcurrent ==
    \/ \E r \in Requests, form \in ConcurrentRegisterForms : registerCallOf(r, form)
    \/ \E r \in Requests : registerHashOf(r)
    \/ \E r \in Requests : registerCreateUserOf(r)
    \/ \E r \in Requests : registerSignInOf(r)
    \/ \E r \in Requests : respondOf(r)

SpecAccounts == Init /\ [][NextAccounts]_vars

SpecInvoices == Init /\ [][NextInvoices]_vars

SpecWriting == Init /\ [][NextWriting]_vars

SpecConcurrent == Init /\ [][NextConcurrent]_vars

-----------------------------------------------------------------------------
(* What the properties below read off the request.                         *)

Done == req.pc = "done"

\* the request ended by returning a value (not undefined)
Returned == Done /\ req.result.kind = "return" /\ req.result.defined

\* it returned the bare object {message}
ReturnedMessage(message) == Returned /\ req.result.value = MessageResult(message)

\* it returned {errors, message} with a non-empty list for the field
ReturnedErrorsFor(field) ==
    /\ Returned
    /\ "errors" \in DOMAIN req.result.value
    /\ field \in DOMAIN req.result.value.errors
    /\ req.result.value.errors[field] # <<>>

Effects == {req.effects[i] : i \in DOMAIN req.effects}

\* the request called the collaborator op
Called(op) == \E e \in Effects : e[1] = op

\* the outcomes of the statements the request issued
SqlOutcomes == {e[3] : e \in {x \in Effects : x[1] = "sql"}}

-----------------------------------------------------------------------------
\* C1: a createInvoice submission whose amount coerces to a number <= 0 is
\* answered at once with a non-empty list of amount errors; no row is
\* inserted, no statement is issued, and neither cache invalidation nor
\* navigation is signalled.
C1_NonPositiveAmountRejected ==
    (/\ req.action = "createInvoice"
     /\ ~ToNumber(req.form.amount).nan
     /\ ToNumber(req.form.amount).hundredths <= 0)
    => /\ ReturnedErrorsFor("amount")
       /\ invoices = req.invoices0
       /\ req.effects = <<>>
       /\ req.result.kind # "redirect"

\* a submission whose only fault is the amount -5
C1_Witness ==
    /\ req.action = "createInvoice" /\ Done
    /\ req.form = InvoiceForm(Str(Customer), Str(<<"-", "5">>), Str(Pending))
    /\ req.result.value.errors =
           [amount |-> <<"Please enter an amount greater than $0.">>]

\* C2: a register submission whose password differs from confirmPassword
\* is answered with a non-empty errors.confirmPassword; no user row is added
\* and no sign-in is attempted.
C2_MismatchReportedOnConfirmPassword ==
    (/\ req.action = "register"
     /\ req.form["password"] # req.form["confirm-password"])
    => /\ ReturnedErrorsFor("confirmPassword")
       /\ users = req.users0
       /\ ~Called("signIn")

\* C3: register with valid fields and an email that already has a row never
\* adds or changes a user row and never attempts a sign-in; once the store
\* has answered the insert, the answer is the unique-constraint violation
\* and register returns exactly "Email already exists. Please sign in."
C3_DuplicateEmailReported ==
    (/\ req.action = "register"
     /\ req.data # NoData
     /\ EmailTaken(req.users0, req.data.email))
    => /\ users = req.users0
       /\ sessions = req.sessions0
       /\ ~Called("signIn")
       /\ SqlOutcomes \subseteq {"23505", "error"}
       /\ (Done /\ "error" \notin SqlOutcomes)
            => /\ SqlOutcomes = {"23505"}
               /\ ReturnedMessage("Email already exists. Please sign in.")

\* a second registration of an email, under another password
C3_Witness ==
    /\ req.action = "register" /\ Done
    /\ req.data # NoData
    /\ \E u \in req.users0 :
         u.email = req.data.email /\ u.password # req.data.hashedPassword
    /\ ReturnedMessage("Email already exists. Please sign in.")

\* C4: a createInvoice submission that passes validation and whose insert
\* succeeds adds exactly one row, with the submitted customerId and status,
\* the submitted amount times 100 and the current day; it then signals the
\* invalidation of the invoices list and ends by navigating to it.
C4_InvoiceCreated ==
    (/\ req.action = "createInvoice" /\ Done
     /\ "ok" \in SqlOutcomes)
    => /\ \E row \in invoices :
            /\ row \notin req.invoices0
            /\ invoices = req.invoices0 \cup {row}
            /\ row.customer_id = req.form.customerId.chars
            /\ row.status = req.form.status.chars
            /\ row.amount = [cents |-> ToNumber(req.form.amount).hundredths, err |-> 0]
            /\ row.date = req.data.now.day
       /\ req.effects = <<Sql("INSERT invoices", "ok"),
                          RevalidatePathCall("/dashboard/invoices"),
                          RedirectCall("/dashboard/invoices")>>
       /\ req.result = [kind |-> "redirect", path |-> "/dashboard/invoices"]

\* C5: when the store raises an error on the delete statement, deleteInvoice
\* returns {message: "Database Error: Failed to Delete Invoice."}, every
\* invoice row is as it was, and neither cache invalidation nor navigation
\* is signalled.
C5_DeleteFailureReported ==
    (/\ req.action = "deleteInvoice" /\ Done
     /\ "error" \in SqlOutcomes)
    => /\ ReturnedMessage("Database Error: Failed to Delete Invoice.")
       /\ invoices = req.invoices0
       /\ ~Called("revalidatePath")
       /\ ~Called("redirect")

\* the failed delete of a row that exists, beside another row
C5_Witness ==
    /\ req.action = "deleteInvoice" /\ Done
    /\ "error" \in SqlOutcomes
    /\ Cardinality(invoices) = 2
    /\ \E row \in invoices : row.id = req.id

\* C6: when the session provider rejects the pair as wrong credentials,
\* authenticate returns the string "Invalid credentials." and no state of
\* the request has a session that the request's start had not.
C6_InvalidCredentials ==
    /\ (req.action = "authenticate" /\ ~Done) => sessions = req.sessions0
    /\ (/\ req.action = "authenticate" /\ Done
        /\ req.effects = << <<"signIn", "no session", "AuthError", "CredentialsSignin", "">> >>)
       => /\ Returned
          /\ req.result.value = "Invalid credentials."
          /\ sessions = req.sessions0

\* the email of a registered user with a password that is not theirs
C6_Witness ==
    /\ req.action = "authenticate" /\ Done
    /\ IsString(req.form.email) /\ IsString(req.form.password)
    /\ EmailTaken(users, req.form.email.chars)
    /\ ~CredentialsMatch(users, req.form.email, req.form.password)
    /\ Returned
    /\ req.result.value = "Invalid credentials."

\* C7: in register, when the user insert succeeded and the sign-in step
\* raised a navigation signal, the request ends with a navigation to
\* /dashboard, never with a returned value.
C7_NavigationPropagates ==
    (/\ req.action = "register" /\ Done
     /\ Sql("INSERT users", "ok") \in Effects
     /\ \E e \in Effects : e[1] = "signIn" /\ e[3] = "RedirectError")
    => req.result = [kind |-> "redirect", path |-> "/dashboard"]

\* the registration of a new user whose sign-in raised a navigation signal
C7_Witness ==
    /\ req.action = "register" /\ Done
    /\ req.effects = <<<<"bcrypt.hash">>, Sql("INSERT users", "ok"),
                       <<"signIn", "session", "RedirectError", "", "/dashboard">>>>
    /\ req.result.kind = "redirect"
    /\ users # req.users0

\* C8: in register, createInvoice, updateInvoice and deleteInvoice every
\* validation failure and every store failure ends the request with a
\* returned value, never with a raised exception.
C8_FailuresAreReturned ==
    (/\ Done
     /\ \/ req.action = "register" /\ ~Success(FullRegisterSchema(registerFields(req.form)))
        \/ req.action = "createInvoice" /\ ~Success(CreateInvoice(req.form))
        \/ req.action = "updateInvoice" /\ ~Success(UpdateInvoice(req.form))
        \/ /\ req.action \in {"register", "createInvoice", "updateInvoice", "deleteInvoice"}
           /\ SqlOutcomes \cap {"error", "23505"} # {})
    => Returned

\* C9: whenever register returns "Something went wrong, please try again."
\* the users table is what it was when the request started.
C9_GenericFailureLeavesNoUser ==
    (/\ req.action = "register"
     /\ ReturnedMessage("Something went wrong, please try again."))
    => users = req.users0

\* C10: a createInvoice submission whose customerId is absent or the empty
\* string is answered with the customerId error "Please select a customer."
\* and inserts no invoice row.
C10_CustomerRequired ==
    (/\ req.action = "createInvoice"
     /\ (req.form.customerId.null \/ req.form.customerId.chars = <<>>))
    => /\ ReturnedErrorsFor("customerId")
       /\ req.result.value.errors.customerId = <<"Please select a customer.">>
       /\ invoices = req.invoices0
       /\ ~Called("sql")

\* C11: for a validated amount of at most two decimal places, what
\* createInvoice and updateInvoice hand to the store is the whole number of
\* cents (19.99 gives exactly 1999), and no stored amount is a non-integer.
C11_AmountStoredInCents ==
    /\ (/\ req.action \in {"createInvoice", "updateInvoice"}
        /\ req.data # NoData)
       => req.data.amountInCents =
              [cents |-> ToNumber(req.form.amount).hundredths, err |-> 0]
    /\ \A row \in invoices : row.amount.err = 0

\* C12: authenticate returns undefined only when signIn returned; when
\* signIn raised CredentialsSignin it returns "Invalid credentials.", when it
\* raised another AuthError it returns "Something went wrong.", and when it
\* raised anything else (a navigation signal included) authenticate ends by
\* raising that same value.
C12_SignInFailureNeverSuccess ==
    (req.action = "authenticate" /\ Done) =>
        LET call == req.effects[1] IN
        /\ Len(req.effects) = 1 /\ call[1] = "signIn"
        /\ (req.result = ReturnUndefined) => call[3] = "returned"
        /\ (call[3] = "AuthError" /\ call[4] = "CredentialsSignin")
               => req.result = Return("Invalid credentials.")
        /\ (call[3] = "AuthError" /\ call[4] # "CredentialsSignin")
               => req.result = Return("Something went wrong.")
        /\ call[3] \notin {"AuthError", "returned"}
               => req.result = Throw(Thrown(call[3], call[4], "", call[5]))

\* signIn raised a navigation to "/" and authenticate ended with it
C12_Witness ==
    /\ req.action = "authenticate" /\ Done
    /\ req.effects = << <<"signIn", "session", "RedirectError", "", "/">> >>
    /\ req.result = [kind |-> "redirect", path |-> "/"]

\* signIn raised an error that is no AuthError and authenticate raised it
C12_WitnessPlainError ==
    /\ req.action = "authenticate" /\ Done
    /\ req.effects = << <<"signIn", "no session", "Error", "", "">> >>
    /\ req.result = [kind |-> "throw", error |-> PlainError]

\* C18: register calls signIn only after its INSERT INTO users reported one
\* affected row; a request whose validation failed, whose insert raised or
\* whose insert reported another row count (answered "Database error. Failed
\* to create user.") never calls signIn and leaves the sessions as they were.
C18_SignInOnlyAfterOneRow ==
    req.action = "register" =>
        /\ (req.pc = "signIn" \/ Called("signIn"))
               => /\ Len(req.effects) >= 2
                  /\ req.effects[2] = Sql("INSERT users", "ok")
                  /\ \A i \in DOMAIN req.effects :
                        req.effects[i][1] = "signIn" => i = 3
        /\ (Done /\ SqlOutcomes # {"ok"})
               => /\ ~Called("signIn")
                  /\ sessions = req.sessions0
        /\ (Done /\ SqlOutcomes = {"ok0"})
               => ReturnedMessage("Database error. Failed to create user.")

\* the insert reported no affected row and register answered without signIn
C18_Witness ==
    /\ req.action = "register" /\ Done
    /\ req.effects = <<<<"bcrypt.hash">>, Sql("INSERT users", "ok0")>>
    /\ ReturnedMessage("Database error. Failed to create user.")

\* C14: in a createInvoice, updateInvoice or deleteInvoice request the
\* statement is issued first and only for a submission that passed validation,
\* revalidatePath('/dashboard/invoices') is called only right after a statement
\* that succeeded, redirect (create and update only) only right after
\* revalidatePath, and a request whose statement failed calls neither.
C14_StepsOrdered ==
    req.action \in {"createInvoice", "updateInvoice", "deleteInvoice"} =>
        /\ Called("sql") =>
              /\ req.effects[1][1] = "sql"
              /\ req.action = "createInvoice" => Success(CreateInvoice(req.form))
              /\ req.action = "updateInvoice" => Success(UpdateInvoice(req.form))
        /\ \A i \in DOMAIN req.effects :
              /\ req.effects[i][1] = "sql" => i = 1
              /\ req.effects[i][1] = "revalidatePath" =>
                    /\ i = 2
                    /\ req.effects[i] = RevalidatePathCall(InvoicesPath)
                    /\ req.effects[1][1] = "sql" /\ req.effects[1][3] = "ok"
              /\ req.effects[i][1] = "redirect" =>
                    /\ i = 3
                    /\ req.action # "deleteInvoice"
                    /\ req.effects[2][1] = "revalidatePath"
        /\ (Done /\ req.result.kind = "redirect") => Called("redirect")
        /\ "error" \in SqlOutcomes =>
              /\ ~Called("revalidatePath") /\ ~Called("redirect")
              /\ Done /\ req.result.kind # "redirect"

\* an update whose statement succeeded, then invalidation, then navigation
C14_Witness ==
    /\ req.action = "updateInvoice" /\ Done
    /\ req.effects = <<Sql("UPDATE invoices", "ok"),
                       RevalidatePathCall(InvoicesPath), RedirectCall(InvoicesPath)>>
    /\ req.result = redirect(InvoicesPath)

\* a create whose statement failed: the statement is the only call made
C14_WitnessFailure ==
    /\ req.action = "createInvoice" /\ Done
    /\ req.effects = <<Sql("INSERT invoices", "error")>>

\* C15: during and after updateInvoice(id, ...) the invoices table has the
\* rows it had when the request started, except that the row with that id may
\* have the submitted customer_id, amount and status (it has them once the
\* statement succeeded); the row's id and date, every other row and the number
\* of rows are unchanged, and with no row of that id the table is unchanged.
C15_UpdateChangesOneRow ==
    req.action = "updateInvoice" =>
        /\ Cardinality(invoices) = Cardinality(req.invoices0)
        /\ \A r0 \in req.invoices0 : r0.id # req.id => r0 \in invoices
        /\ \A r \in invoices :
              r.id = req.id =>
                 \E r0 \in req.invoices0 :
                    /\ r0.id = r.id /\ r0.date = r.date
                    /\ \/ r = r0
                       \/ /\ SqlOutcomes = {"ok"}
                          /\ r.customer_id = req.data.customerId
                          /\ r.amount = req.data.amountInCents
                          /\ r.status = req.data.status
        /\ (Done /\ SqlOutcomes = {"ok"}) =>
              \A r \in invoices :
                 r.id = req.id => /\ r.customer_id = req.data.customerId
                                  /\ r.amount = req.data.amountInCents
                                  /\ r.status = req.data.status
        /\ (\A r0 \in req.invoices0 : r0.id # req.id) => invoices = req.invoices0

\* an update that changed one of two rows
C15_Witness ==
    /\ req.action = "updateInvoice" /\ Done /\ SqlOutcomes = {"ok"}
    /\ Cardinality(req.invoices0) = 2
    /\ invoices # req.invoices0
    /\ \E r \in invoices, r0 \in req.invoices0 :
          r.id = req.id /\ r0.id = req.id /\ r.status # r0.status

\* an update of an id no row has
C15_WitnessNoRow ==
    /\ req.action = "updateInvoice" /\ Done /\ SqlOutcomes = {"ok"}
    /\ req.invoices0 # {}
    /\ \A r0 \in req.invoices0 : r0.id # req.id

\* C17: a register or createInvoice submission with invalid fields is
\* answered with errors that hold a non-empty message list for every field its
\* schema rejects; for register a confirmPassword that differs from the
\* password is reported as "Password does not match" on confirmPassword
\* whatever the other fields are.
C17_AllFieldErrorsCollected ==
    /\ req.action = "register" =>
          LET data == registerFields(req.form)
              issues == RegisterSchema(data).issues
          IN  /\ \A f \in DOMAIN issues :
                    issues[f] # <<>> => ReturnedErrorsFor(f)
              /\ data.confirmPassword # data.password =>
                    /\ ReturnedErrorsFor("confirmPassword")
                    /\ \E i \in DOMAIN req.result.value.errors.confirmPassword :
                          req.result.value.errors.confirmPassword[i]
                              = "Password does not match"
    /\ req.action = "createInvoice" =>
          LET issues == FormSchema(req.form).issues IN
          \A f \in DOMAIN issues : issues[f] # <<>> => ReturnedErrorsFor(f)

\* C19: on a path that starts with /dashboard the authorized callback returns
\* true exactly when the request carries a user and false otherwise; on any
\* other path it returns true to a request without a user and a redirect to
\* /dashboard to a request with one. So a request that is granted a dashboard
\* path always carries the session of a user who signed in.
C19_DashboardOnlyWhenLoggedIn ==
    req.action = "authorized" =>
        LET auth == req.form.auth
            carriesUser == ~auth.null /\ ~auth.user.null
            onDashboard == StartsWith(req.form.pathname, DashboardChars)
            granted == req.result = Return(Boolean(TRUE))
        IN  /\ Done
            /\ onDashboard =>
                  /\ granted <=> carriesUser
                  /\ ~carriesUser => req.result = Return(Boolean(FALSE))
                  /\ granted => auth.user.chars \in sessions
            /\ (~onDashboard /\ ~carriesUser) => granted
            /\ (~onDashboard /\ carriesUser) =>
                  req.result = Return(ResponseRedirect("/dashboard"))
            /\ sessions = req.sessions0 /\ users = req.users0

\* a signed-in user is granted a page under /dashboard
C19_Witness ==
    /\ req.action = "authorized" /\ Done
    /\ req.form.auth = SessionOf(Str(GoodEmail))
    /\ req.form.pathname = DashboardChars \o <<"/", "i", "n", "v", "o", "i", "c", "e", "s">>
    /\ req.result = Return(Boolean(TRUE))

\* a request without a user is refused the dashboard
C19_WitnessRefused ==
    /\ req.action = "authorized" /\ Done
    /\ req.form.auth = SessionOf(Null)
    /\ req.form.pathname = DashboardChars
    /\ req.result = Return(Boolean(FALSE))

\* a signed-in user asking for the login page is sent to the dashboard
C19_WitnessRedirected ==
    /\ req.action = "authorized" /\ Done
    /\ req.form.auth = SessionOf(Str(GoodEmail))
    /\ req.form.pathname = <<"/", "l", "o", "g", "i", "n">>
    /\ req.result = Return(ResponseRedirect("/dashboard"))

\* C16: a register, createInvoice, updateInvoice or deleteInvoice request
\* issues at most one statement; once a statement has failed the request is
\* over with the tables as they were when it started; and at no point has a
\* request added more than one row to users and invoices together.
C16_AtMostOneStatement ==
    req.action \in {"register", "createInvoice", "updateInvoice", "deleteInvoice"} =>
        /\ Cardinality({i \in DOMAIN req.effects : req.effects[i][1] = "sql"}) <= 1
        /\ SqlOutcomes \cap {"error", "23505"} # {} =>
              /\ Done
              /\ users = req.users0 /\ invoices = req.invoices0
        /\ Cardinality(users) + Cardinality(invoices)
              <= Cardinality(req.users0) + Cardinality(req.invoices0) + 1
        /\ ~Called("sql") => (users = req.users0 /\ invoices = req.invoices0)

\* a createInvoice whose one statement failed and was not issued again
C16_Witness ==
    /\ req.action = "createInvoice" /\ Done
    /\ SqlOutcomes = {"error"}
    /\ Len(req.effects) = 1
    /\ ReturnedMessage("Database Error: Failed to Create Invoice.")
    /\ invoices = req.invoices0 /\ users # {}

\* a register whose one statement added one row
C16_WitnessRegister ==
    /\ req.action = "register" /\ Done
    /\ SqlOutcomes = {"ok"}
    /\ Cardinality(users) = Cardinality(req.users0) + 1
    /\ invoices # {}

\* the register requests in flight or answered that carry the email
RequestsWith(email) ==
    {r \in Requests : reqs[r].pc # "idle" /\ reqs[r].form["email"] = Str(email)}

EffectsOf(r) == {reqs[r].effects[i] : i \in DOMAIN reqs[r].effects}

\* C13: however register requests with one email interleave, the users table
\* never has two rows with that email, at most one of the requests had its
\* insert applied, at most one is at or past signIn, and every request whose
\* insert met the existing row returned "Email already exists. Please sign
\* in." without calling signIn.  (A request whose statement the store failed
\* for another reason is answered by C9's message instead.)
C13_OneRowPerEmail ==
    \A email \in {GoodEmail, OtherEmail} :
        LET same == RequestsWith(email)
            applied == {r \in same : Sql("INSERT users", "ok") \in EffectsOf(r)}
            signing == {r \in same : \/ reqs[r].pc = "signIn"
                                     \/ \E e \in EffectsOf(r) : e[1] = "signIn"}
        IN  /\ Cardinality({u \in users : u.email = email}) <= 1
            /\ Cardinality(applied) <= 1
            /\ signing \subseteq applied
            /\ \A r \in same \ applied :
                  Sql("INSERT users", "23505") \in EffectsOf(r) =>
                      /\ reqs[r].pc = "done"
                      /\ reqs[r].result =
                            Return(MessageResult("Email already exists. Please sign in."))
            /\ \A r \in same \ applied :
                  (/\ applied # {}
                   /\ reqs[r].pc = "done"
                   /\ \A o \in {"error", "ok0"} :
                         Sql("INSERT users", o) \notin EffectsOf(r))
                  => reqs[r].result =
                         Return(MessageResult("Email already exists. Please sign in."))

\* two requests with one email and different passwords in flight together:
\* the first is waiting for signIn, the second has been told the email exists
C13_Witness ==
    /\ reqs[1].pc = "signIn" /\ reqs[2].pc = "done"
    /\ reqs[1].form["email"] = Str(GoodEmail)
    /\ reqs[2].form["email"] = Str(GoodEmail)
    /\ reqs[1].form["password"] # reqs[2].form["password"]
    /\ reqs[2].effects = <<<<"bcrypt.hash">>, Sql("INSERT users", "23505")>>
    /\ reqs[2].result = Return(MessageResult("Email already exists. Please sign in."))
    /\ Cardinality(users) = 1

=============================================================================
